---- MODULE Spec2Model ----
(***************************************************************************)
(* Exposure rating model for UAVs (src/Assignment.py, class portfolio as   *)
(* last defined, lines 246-352) and the Riebesell ILF (lines 26-34).       *)
(*                                                                         *)
(* Fixed-point conventions (the source computes in binary floating point): *)
(*   money             whole GBP                                           *)
(*   weightmultiplier  hundredths      (1.20 is 120)                       *)
(*   baserate, finalrate, tplbaserate, rate   thousandths (0.06 is 60)     *)
(*   tplilf, riebesell ten-thousandths (1.0 is 10000)                      *)
(*   brokerage         percent         (0.30 is 30)                        *)
(* The input values below are chosen so that every product and quotient    *)
(* the model forms is exact in these units.                                *)
(***************************************************************************)
EXTENDS Integers, Sequences, FiniteSets, TLC

VARIABLES exists, brokerage, simultanousdronelimit, df, summary, last, lastn

vars == <<exists, brokerage, simultanousdronelimit, df, summary, last, lastn>>

(***************************************************************************)
(* Bounds of the exploration.                                              *)
(***************************************************************************)
MaxRows == 3
MaxBatch == 2
MaxN == 2

(***************************************************************************)
(* Missing values.  NaN is pandas' missing number, NullStr a missing       *)
(* string, None Python's None passed as an argument.                       *)
(***************************************************************************)
NaN == -999999999
None == -888888888
NullStr == "<null>"

StrColumns == {"serialnumber", "weightband", "assettype"}

Columns ==
  {"serialnumber", "valuegbp", "weightband", "hasdetachablecamera", "tpllimit",
   "tplexcess", "assettype", "hullpremium", "tpllayerpremium", "premium",
   "rate", "baserate", "weightmultiplier", "finalrate", "tplbaserate",
   "tplbaselayerpremium", "tplilf", "totalprem", "adjusthullprem",
   "adjustcamprem", "adjusttplprem"}

Null(col) == IF col \in StrColumns THEN NullStr ELSE NaN

isnull(col, v) == v = Null(col)

(***************************************************************************)
(* riebesell(limit): ILF(x * base) = x^alpha with alpha = log2(1+z), hence *)
(* ILF(2 * l) = (1+z) * ILF(l) and ILF(base) = 1.  The model evaluates the *)
(* curve at limit <= 0 and at base * 2^k, where it is rational.            *)
(***************************************************************************)
baselimit == 1000000
z == 2
ILFOne == 10000

RECURSIVE riebesell_pow(_)
riebesell_pow(limit) ==
  IF limit <= baselimit THEN ILFOne
  ELSE (riebesell_pow(limit \div 2) * (10 + z)) \div 10

riebesell(limit) == IF limit <= 0 THEN 0 ELSE riebesell_pow(limit)

maximum(a, b) == IF a >= b THEN a ELSE b
minimum(a, b) == IF a <= b THEN a ELSE b

tplilf_noclamp(tpllimit, tplexcess) ==
  riebesell(tpllimit + tplexcess) - riebesell(tplexcess)

tplilf(tpllimit, tplexcess) ==
  maximum(0, minimum(riebesell(tpllimit + tplexcess) - riebesell(tplexcess), ILFOne))

(***************************************************************************)
(* Rate table.                                                             *)
(***************************************************************************)
basehull == 60
basetpl == 20

weightmult(band) ==
  CASE band = "0 - 5kg" -> 100
    [] band = "5 - 10kg" -> 120
    [] band = "10 - 20kg" -> 160
    [] band = "> 20kg" -> 250
    [] OTHER -> NaN

weightmultiplier_fill100(band) ==
  LET m == weightmult(band) IN IF m = NaN THEN 100 ELSE m

weightmultiplier(band) ==
  LET m == weightmult(band) IN IF m = NaN THEN 250 ELSE m

(***************************************************************************)
(* __init__: the two configuration checks.  An argument is a record of its *)
(* Python type t and its value v.                                          *)
(***************************************************************************)
Arg(t, v) == [t |-> t, v |-> v]

validbrokerage_upto1(b) == b.t \in {"float", "int"} /\ 0 <= b.v /\ b.v <= 100

validbrokerage(b) == b.t \in {"float", "int"} /\ 0 <= b.v /\ b.v < 100

validlimit_anyint(l) == l.t = "NoneType" \/ l.t = "int"

validlimit(l) == l.t = "NoneType" \/ (l.t = "int" /\ l.v >= 0)

(***************************************************************************)
(* dataframe(data, assettype).  data is a sequence of dicts (records whose *)
(* domain is the keys given).                                              *)
(***************************************************************************)
dfcolumns(data) == UNION {DOMAIN data[i] : i \in 1..Len(data)} \cup {"assettype"}

dfrow(d, assettype) ==
  [col \in Columns |->
     IF col = "assettype" THEN assettype
     ELSE IF col \in DOMAIN d THEN d[col]
     ELSE Null(col)]

dfnew(data, assettype) == [i \in 1..Len(data) |-> dfrow(data[i], assettype)]

requiredinfo(assettype) ==
  IF assettype = "drone"
  THEN <<"valuegbp", "weightband", "hasdetachablecamera", "tpllimit", "tplexcess">>
  ELSE IF assettype = "camera" THEN <<"valuegbp">>
  ELSE <<>>

RECURSIVE checkrequired(_, _, _, _)
checkrequired(rows, cols, req, k) ==
  IF k > Len(req) THEN "ok"
  ELSE IF req[k] \notin cols THEN "KeyError"
  ELSE IF \E i \in 1..Len(rows) : isnull(req[k], rows[i][req[k]]) THEN "ValueError"
  ELSE checkrequired(rows, cols, req, k + 1)

dataframe_concatfirst(olddf, data, assettype) ==
  LET rows == dfnew(data, assettype)
  IN [error |-> checkrequired(rows, dfcolumns(data), requiredinfo(assettype), 1),
      df |-> olddf \o rows]

dataframe_nocheck(olddf, data, assettype) ==
  [error |-> "ok", df |-> olddf \o dfnew(data, assettype)]

dataframe(olddf, data, assettype) ==
  LET rows == dfnew(data, assettype)
      res == checkrequired(rows, dfcolumns(data), requiredinfo(assettype), 1)
  IN [error |-> res,
      df |-> IF res = "ok" THEN olddf \o rows ELSE olddf]

(***************************************************************************)
(* premcalculation(n), rate engine part.  A frame (dronesdf, camerasdf) is *)
(* a function from the row labels it holds to rows.                        *)
(***************************************************************************)
frame(rows, assettype) ==
  [i \in {j \in 1..Len(rows) : rows[j].assettype = assettype} |-> rows[i]]

ratedrone_accumulate(r) ==
  LET wm == weightmultiplier(r.weightband)
      fr == (basehull * wm) \div 100
      hp == (r.valuegbp * fr) \div 1000
      blp == (basetpl * r.valuegbp) \div 1000
      ilf == tplilf(r.tpllimit, r.tplexcess)
  IN [r EXCEPT !.weightmultiplier = wm,
               !.baserate = basehull,
               !.finalrate = fr,
               !.hullpremium = (IF r.hullpremium = NaN THEN 0 ELSE r.hullpremium) + hp,
               !.tplbaserate = basetpl,
               !.tplbaselayerpremium = blp,
               !.tplilf = ilf,
               !.tpllayerpremium = (blp * ilf) \div ILFOne]

ratedrone(r) ==
  LET wm == weightmultiplier(r.weightband)
      fr == (basehull * wm) \div 100
      hp == (r.valuegbp * fr) \div 1000
      blp == (basetpl * r.valuegbp) \div 1000
      ilf == tplilf(r.tpllimit, r.tplexcess)
  IN [r EXCEPT !.weightmultiplier = wm,
               !.baserate = basehull,
               !.finalrate = fr,
               !.hullpremium = hp,
               !.tplbaserate = basetpl,
               !.tplbaselayerpremium = blp,
               !.tplilf = ilf,
               !.tpllayerpremium = (blp * ilf) \div ILFOne]

SetMax(S) == CHOOSE x \in S : \A y \in S : y <= x
SetMin(S) == CHOOSE x \in S : \A y \in S : y >= x

maxrate_min(dronesdf) ==
  LET withcam == {i \in DOMAIN dronesdf : dronesdf[i].hasdetachablecamera = 1}
  IN IF withcam # {} THEN SetMin({dronesdf[i].finalrate : i \in withcam}) ELSE 0

maxrate(dronesdf) ==
  LET withcam == {i \in DOMAIN dronesdf : dronesdf[i].hasdetachablecamera = 1}
  IN IF withcam # {} THEN SetMax({dronesdf[i].finalrate : i \in withcam}) ELSE 0

ratecamera(r, rate) ==
  [r EXCEPT !.rate = rate, !.premium = (r.valuegbp * rate) \div 1000]

(***************************************************************************)
(* premcalculation(n), the extensions.                                     *)
(***************************************************************************)
flatdronefee == 150
flatcamerafee == 50

\* DataFrame.nlargest(n, col), keep="first": the labels of the first n rows
\* of the frame sorted by col descending, earlier rows first among equals.
nlargest_nsmallest(fr, n, col) ==
  {i \in DOMAIN fr :
     Cardinality({j \in DOMAIN fr :
        fr[j][col] < fr[i][col] \/ (fr[j][col] = fr[i][col] /\ j < i)}) < n}

nlargest_keeplast(fr, n, col) ==
  {i \in DOMAIN fr :
     Cardinality({j \in DOMAIN fr :
        fr[j][col] > fr[i][col] \/ (fr[j][col] = fr[i][col] /\ j > i)}) < n}

nlargest(fr, n, col) ==
  {i \in DOMAIN fr :
     Cardinality({j \in DOMAIN fr :
        fr[j][col] > fr[i][col] \/ (fr[j][col] = fr[i][col] /\ j < i)}) < n}

\* fr["serialnumber"].isin(fr.nlargest(n, col)["serialnumber"])
istop(fr, n, col) ==
  LET top == {fr[i].serialnumber : i \in nlargest(fr, n, col)}
  IN {i \in DOMAIN fr : fr[i].serialnumber \in top}

unadjusteddrone(r) ==
  [r EXCEPT !.totalprem = r.hullpremium + r.tpllayerpremium,
            !.adjusthullprem = r.hullpremium,
            !.adjusttplprem = r.tpllayerpremium]

adjustdrones_noguard(dronesdf, n) ==
  LET d == [i \in DOMAIN dronesdf |-> unadjusteddrone(dronesdf[i])]
      numdrones == Cardinality(DOMAIN d)
  IN IF n < numdrones
     THEN LET istopn == istop(d, n, "totalprem")
          IN [i \in DOMAIN d |->
                IF i \in istopn THEN d[i]
                ELSE [d[i] EXCEPT !.adjusthullprem = flatdronefee,
                                  !.adjusttplprem = 0]]
     ELSE d

adjustdrones_surcharge(dronesdf, n) ==
  LET d == [i \in DOMAIN dronesdf |-> unadjusteddrone(dronesdf[i])]
      numdrones == Cardinality(DOMAIN d)
  IN IF n # None /\ 0 <= n /\ n < numdrones
     THEN LET istopn == istop(d, n, "totalprem")
          IN [i \in DOMAIN d |->
                IF i \in istopn THEN d[i]
                ELSE [d[i] EXCEPT !.adjusthullprem = d[i].hullpremium + flatdronefee,
                                  !.adjusttplprem = 0]]
     ELSE d

adjustdrones(dronesdf, n) ==
  LET d == [i \in DOMAIN dronesdf |-> unadjusteddrone(dronesdf[i])]
      numdrones == Cardinality(DOMAIN d)
  IN IF n # None /\ 0 <= n /\ n < numdrones
     THEN LET istopn == istop(d, n, "totalprem")
          IN [i \in DOMAIN d |->
                IF i \in istopn THEN d[i]
                ELSE [d[i] EXCEPT !.adjusthullprem = flatdronefee,
                                  !.adjusttplprem = 0]]
     ELSE d

adjustcameras_nomax(camerasdf, dronesdf, n) ==
  LET c == [i \in DOMAIN camerasdf |->
              [camerasdf[i] EXCEPT !.adjustcamprem = camerasdf[i].premium]]
      numdrones == Cardinality(DOMAIN dronesdf)
      numcameras == Cardinality(DOMAIN c)
      camlimit == n
  IN IF camlimit # None /\ numcameras > numdrones
     THEN LET istopncam == istop(c, camlimit, "valuegbp")
          IN [i \in DOMAIN c |->
                IF i \in istopncam THEN c[i]
                ELSE [c[i] EXCEPT !.adjustcamprem = flatcamerafee]]
     ELSE c

adjustcameras(camerasdf, dronesdf, n) ==
  LET c == [i \in DOMAIN camerasdf |->
              [camerasdf[i] EXCEPT !.adjustcamprem = camerasdf[i].premium]]
      numdrones == Cardinality(DOMAIN dronesdf)
      numcameras == Cardinality(DOMAIN c)
      camlimit ==
        IF n # None
        THEN maximum(n, Cardinality({i \in DOMAIN dronesdf :
                                       dronesdf[i].hasdetachablecamera = 1}))
        ELSE None
  IN IF camlimit # None /\ numcameras > numdrones
     THEN LET istopncam == istop(c, camlimit, "valuegbp")
          IN [i \in DOMAIN c |->
                IF i \in istopncam THEN c[i]
                ELSE [c[i] EXCEPT !.adjustcamprem = flatcamerafee]]
     ELSE c

\* DataFrame.update(other): aligned on the row labels, a value of other
\* replaces the stored one unless it is missing.
update_keepold(rows, other) ==
  [i \in 1..Len(rows) |->
     IF i \in DOMAIN other
     THEN [col \in Columns |->
             IF isnull(col, rows[i][col]) THEN other[i][col] ELSE rows[i][col]]
     ELSE rows[i]]

update(rows, other) ==
  [i \in 1..Len(rows) |->
     IF i \in DOMAIN other
     THEN [col \in Columns |->
             IF isnull(col, other[i][col]) THEN rows[i][col] ELSE other[i][col]]
     ELSE rows[i]]

premcalculation(rows, n) ==
  LET rated == [i \in DOMAIN frame(rows, "drone") |-> ratedrone(frame(rows, "drone")[i])]
      rate == maxrate(rated)
      cams == [i \in DOMAIN frame(rows, "camera") |-> ratecamera(frame(rows, "camera")[i], rate)]
      dronesdf == adjustdrones(rated, n)
      camerasdf == adjustcameras(cams, rated, n)
  IN update(update(rows, dronesdf), camerasdf)

(***************************************************************************)
(* summaries()                                                             *)
(***************************************************************************)
RECURSIVE colsum(_, _, _, _)
\* Series.sum() of column col over the rows of the asset type; missing
\* values are skipped.
colsum(rows, assettype, col, k) ==
  IF k > Len(rows) THEN 0
  ELSE (IF rows[k].assettype = assettype /\ ~isnull(col, rows[k][col])
        THEN rows[k][col] ELSE 0)
       + colsum(rows, assettype, col, k + 1)

gross(net, b) == (net * 100) \div (100 - b)

nosummary ==
  [hullnet |-> NaN, hullgross |-> NaN, tplnet |-> NaN, tplgross |-> NaN,
   camnet |-> NaN, camgross |-> NaN, totalnet |-> NaN, totalgross |-> NaN]

summaries_raw(rows, b) ==
  LET hulltotnet == colsum(rows, "drone", "hullpremium", 1)
      tpltotnet == colsum(rows, "drone", "tpllayerpremium", 1)
      camtotnet == colsum(rows, "camera", "premium", 1)
  IN [hullnet |-> hulltotnet, hullgross |-> gross(hulltotnet, b),
      tplnet |-> tpltotnet, tplgross |-> gross(tpltotnet, b),
      camnet |-> camtotnet, camgross |-> gross(camtotnet, b),
      totalnet |-> hulltotnet + tpltotnet + camtotnet,
      totalgross |-> gross(hulltotnet, b) + gross(tpltotnet, b) + gross(camtotnet, b)]

summaries(rows, b) ==
  LET hulltotnet == colsum(rows, "drone", "adjusthullprem", 1)
      tpltotnet == colsum(rows, "drone", "adjusttplprem", 1)
      camtotnet == colsum(rows, "camera", "adjustcamprem", 1)
  IN [hullnet |-> hulltotnet, hullgross |-> gross(hulltotnet, b),
      tplnet |-> tpltotnet, tplgross |-> gross(tpltotnet, b),
      camnet |-> camtotnet, camgross |-> gross(camtotnet, b),
      totalnet |-> hulltotnet + tpltotnet + camtotnet,
      totalgross |-> gross(hulltotnet, b) + gross(tpltotnet, b) + gross(camtotnet, b)]

(***************************************************************************)
(* Inputs.                                                                 *)
(***************************************************************************)
Drone(s, v, w, c, l, e) ==
  [serialnumber |-> s, valuegbp |-> v, weightband |-> w,
   hasdetachablecamera |-> c, tpllimit |-> l, tplexcess |-> e]

Camera(s, v) == [serialnumber |-> s, valuegbp |-> v]

\* hull/TPL/total premium of the complete drones: AAA 375/50/425 and
\* UUU 375/50/425 (unrecognised band, equal total), DDD 0/0/0.  The ILF
\* difference is 1.2 (clamped to 1) for AAA, 1 for UUU and -0.2 (clamped
\* to 0) for DDD.  NNN has a null weight band.  The camera KKK lacks the key
\* valuegbp.
DroneInputs ==
  {Drone("AAA", 2500, "> 20kg", 1, 2000000, 0),
   Drone("UUU", 2500, "25kg+", 0, 1000000, 0),
   Drone("DDD", 0, "5 - 10kg", 1, -1000000, 2000000),
   Drone("NNN", 2500, NullStr, 1, 1000000, 0)}

CameraInputs ==
  {Camera("ZZZ", 1000), Camera("XXX", 1000), Camera("YYY", 500),
   [serialnumber |-> "KKK"]}

Inputs(assettype) == IF assettype = "drone" THEN DroneInputs ELSE CameraInputs

Batches(assettype) ==
  UNION {[1..k -> Inputs(assettype)] : k \in 1..MaxBatch}

NValues == {None} \cup (-1..MaxN)

BrokerageInputs ==
  {Arg("float", 50), Arg("float", -10), Arg("int", 100), Arg("float", 150),
   Arg("str", 30)}

LimitInputs ==
  {Arg("NoneType", None), Arg("int", -1), Arg("float", 2), Arg("str", 2)}

(***************************************************************************)
(* The state machine: one portfolio object and the calls made on it.       *)
(* last names the most recent call and how it ended; lastn is the argument *)
(* of that call when it was premcalculation, None otherwise.  Before a     *)
(* successful __init__ there is no portfolio (exists is FALSE).            *)
(***************************************************************************)
Init ==
  /\ exists = FALSE
  /\ brokerage = Arg("NoneType", None)
  /\ simultanousdronelimit = Arg("NoneType", None)
  /\ df = <<>>
  /\ summary = nosummary
  /\ last = "none"
  /\ lastn = None

Construct ==
  /\ ~exists
  /\ \E b \in BrokerageInputs, l \in LimitInputs :
       IF validbrokerage(b) /\ validlimit(l)
       THEN /\ exists' = TRUE
            /\ brokerage' = b
            /\ simultanousdronelimit' = l
            /\ df' = <<>>
            /\ last' = "__init__"
            /\ UNCHANGED <<summary, lastn>>
       ELSE /\ last' = "__init__ error"
            /\ UNCHANGED <<exists, brokerage, simultanousdronelimit, df, summary, lastn>>

Dataframe ==
  /\ exists
  /\ \E assettype \in {"drone", "camera"} :
       \E data \in Batches(assettype) :
         /\ Len(df) + Len(data) <= MaxRows
         /\ LET res == dataframe(df, data, assettype)
            IN /\ df' = res.df
               /\ last' = IF res.error = "ok" THEN "dataframe" ELSE "dataframe error"
  /\ lastn' = None
  /\ UNCHANGED <<exists, brokerage, simultanousdronelimit, summary>>

Premcalculation ==
  /\ exists
  /\ \E n \in NValues :
       /\ df' = premcalculation(df, n)
       /\ lastn' = n
       /\ last' = "premcalculation"
  /\ UNCHANGED <<exists, brokerage, simultanousdronelimit, summary>>

Summaries ==
  /\ exists
  /\ summary' = summaries(df, brokerage.v)
  /\ last' = "summaries"
  /\ lastn' = None
  /\ UNCHANGED <<exists, brokerage, simultanousdronelimit, df>>

Next == Construct \/ Dataframe \/ Premcalculation \/ Summaries

Spec == Init /\ [][Next]_vars

(***************************************************************************)
(* Properties.                                                             *)
(***************************************************************************)
Rows == 1..Len(df)
Drones == {i \in Rows : df[i].assettype = "drone"}
Cameras == {i \in Rows : df[i].assettype = "camera"}
numberOfDrones == Cardinality(Drones)
numberOfCameras == Cardinality(Cameras)
WithCamera == {i \in Drones : df[i].hasdetachablecamera = 1}

AfterPremcalculation == last = "premcalculation"

Unadjusted(i) ==
  /\ df[i].hullpremium # NaN
  /\ df[i].tpllayerpremium # NaN
  /\ df[i].adjusthullprem = df[i].hullpremium
  /\ df[i].adjusttplprem = df[i].tpllayerpremium

Flattened(i, fee) ==
  /\ df[i].adjusthullprem = fee
  /\ df[i].adjusttplprem = 0

\* T holds k rows of S and no row outside T has a larger col than one inside.
IsTop(T, S, k, col) ==
  /\ T \subseteq S
  /\ Cardinality(T) = k
  /\ \A i \in T : \A j \in S \ T : df[i][col] >= df[j][col]

SameSerial(T, S) == {i \in S : \E t \in T : df[t].serialnumber = df[i].serialnumber}

DistinctSerials(S) ==
  \A i \in S : \A j \in S : i # j => df[i].serialnumber # df[j].serialnumber

DroneTier == AfterPremcalculation /\ lastn # None /\ 0 <= lastn /\ lastn < numberOfDrones

\* C1 as stated: after premcalculation(n) with 0 <= n < numberOfDrones,
\* exactly the n drones of highest totalprem keep adjusted = raw and each of
\* the others has adjusthullprem = 120 and adjusttplprem = 0.
C1_Original ==
  DroneTier =>
    \E T \in SUBSET Drones :
      /\ IsTop(T, Drones, lastn, "totalprem")
      /\ \A i \in T : Unadjusted(i)
      /\ \A i \in Drones \ T : Flattened(i, 120)

\* C1 amended: after premcalculation(n) with 0 <= n < numberOfDrones, the
\* drones that keep adjusted = raw are those bearing the serial number of
\* one of the n drones of highest totalprem (exactly those n drones when
\* serial numbers are distinct), and every other drone has
\* adjusthullprem = 150 and adjusttplprem = 0.
C1_Amended ==
  DroneTier =>
    \E T \in SUBSET Drones :
      /\ IsTop(T, Drones, lastn, "totalprem")
      /\ DistinctSerials(Drones) => SameSerial(T, Drones) = T
      /\ \A i \in SameSerial(T, Drones) : Unadjusted(i)
      /\ \A i \in Drones \ SameSerial(T, Drones) : Flattened(i, 150)

C1_Witness ==
  /\ DroneTier
  /\ lastn = 1
  /\ numberOfDrones = 3
  /\ DistinctSerials(Drones)
  /\ Cardinality({i \in Drones : Unadjusted(i)}) = 1
  /\ Cardinality({i \in Drones : Flattened(i, flatdronefee) /\ ~Unadjusted(i)}) = 2

\* C2: after premcalculation with n None, n >= numberOfDrones or n < 0,
\* every drone has adjusthullprem = hullpremium and
\* adjusttplprem = tpllayerpremium.
C2_NoDroneAdjustment ==
  (AfterPremcalculation /\ (lastn = None \/ lastn >= numberOfDrones \/ lastn < 0))
    => \A i \in Drones : Unadjusted(i)

C2_Witness ==
  /\ AfterPremcalculation
  /\ lastn # None
  /\ lastn < 0
  /\ numberOfDrones >= 2
  /\ \A i \in Drones : Unadjusted(i)
  /\ \E i \in Drones : df[i].adjusthullprem # flatdronefee

cameraLimit == maximum(lastn, Cardinality(WithCamera))

CameraTier ==
  AfterPremcalculation /\ lastn # None /\ numberOfCameras > numberOfDrones

CameraUnadjusted(i) ==
  /\ df[i].premium # NaN
  /\ df[i].adjustcamprem = df[i].premium

\* C3 as stated: cameras are adjusted only when n is given and there are
\* more cameras than drones; then the cameraLimit = max(n, drones with a
\* detachable camera) cameras of highest value keep adjustcamprem = premium
\* and every other camera has adjustcamprem = 40; otherwise every camera
\* keeps adjustcamprem = premium.
C3_Original ==
  AfterPremcalculation =>
    IF CameraTier
    THEN \E T \in SUBSET Cameras :
           /\ IsTop(T, Cameras, minimum(cameraLimit, numberOfCameras), "valuegbp")
           /\ \A i \in T : CameraUnadjusted(i)
           /\ \A i \in Cameras \ T : df[i].adjustcamprem = 40
    ELSE \A i \in Cameras : CameraUnadjusted(i)

\* C3 amended: as C3, with the cameras kept at adjustcamprem = premium
\* being those bearing the serial number of one of the cameraLimit cameras
\* of highest value (exactly those cameras when serial numbers are
\* distinct) and every other camera having adjustcamprem = 50.
C3_Amended ==
  AfterPremcalculation =>
    IF CameraTier
    THEN \E T \in SUBSET Cameras :
           /\ IsTop(T, Cameras, minimum(cameraLimit, numberOfCameras), "valuegbp")
           /\ DistinctSerials(Cameras) => SameSerial(T, Cameras) = T
           /\ \A i \in SameSerial(T, Cameras) : CameraUnadjusted(i)
           /\ \A i \in Cameras \ SameSerial(T, Cameras) : df[i].adjustcamprem = 50
    ELSE \A i \in Cameras : CameraUnadjusted(i)

C3_Witness ==
  /\ CameraTier
  /\ lastn = 0
  /\ cameraLimit = 1
  /\ numberOfCameras = 2
  /\ \E i \in Cameras : \E j \in Cameras :
       /\ df[i].valuegbp > df[j].valuegbp
       /\ CameraUnadjusted(i)
       /\ df[j].adjustcamprem = flatcamerafee
       /\ df[j].premium # flatcamerafee

\* C4: after premcalculation every camera has the same rate, the largest
\* finalrate among the drones with hasdetachablecamera (0 when there is
\* none), and premium = valuegbp * rate.
C4_CameraRate ==
  AfterPremcalculation =>
    \A i \in Cameras :
      /\ IF WithCamera = {}
         THEN df[i].rate = 0
         ELSE /\ \E d \in WithCamera : df[i].rate = df[d].finalrate
              /\ \A d \in WithCamera : df[i].rate >= df[d].finalrate
      /\ df[i].premium * 1000 = df[i].valuegbp * df[i].rate

C4_Witness ==
  /\ AfterPremcalculation
  /\ numberOfCameras >= 1
  /\ \E d \in WithCamera : \E e \in WithCamera : df[d].finalrate < df[e].finalrate
  /\ \A i \in Cameras : df[i].rate = 150 /\ df[i].premium > 0

RECURSIVE Total(_, _)
\* The sum of column col over the rows S that have a value in it.
Total(S, col) ==
  IF S = {} THEN 0
  ELSE LET i == CHOOSE j \in S : TRUE
       IN (IF df[i][col] = NaN THEN 0 ELSE df[i][col]) + Total(S \ {i}, col)

\* C5: after summaries() each category net is the sum of the adjusted
\* premiums of its assets (those present; an asset not yet calculated has
\* none), each category gross is net / (1 - brokerage), and Total is the
\* sum of the three nets and the sum of the three grosses.
C5_Summary ==
  last = "summaries" =>
    /\ summary.hullnet = Total(Drones, "adjusthullprem")
    /\ summary.tplnet = Total(Drones, "adjusttplprem")
    /\ summary.camnet = Total(Cameras, "adjustcamprem")
    /\ summary.hullgross * (100 - brokerage.v) = summary.hullnet * 100
    /\ summary.tplgross * (100 - brokerage.v) = summary.tplnet * 100
    /\ summary.camgross * (100 - brokerage.v) = summary.camnet * 100
    /\ summary.totalnet = summary.hullnet + summary.tplnet + summary.camnet
    /\ summary.totalgross = summary.hullgross + summary.tplgross + summary.camgross

C5_Witness ==
  /\ last = "summaries"
  /\ \E i \in Drones : df[i].adjusthullprem # NaN /\ df[i].adjusthullprem # df[i].hullpremium
  /\ \E i \in Drones : df[i].adjusttplprem # NaN /\ df[i].adjusttplprem # df[i].tpllayerpremium
  /\ summary.hullnet > 0
  /\ summary.tplnet > 0
  /\ summary.camnet > 0
  /\ summary.totalgross > summary.totalnet

\* C6: premcalculation is idempotent: once premcalculation(n) has run,
\* running premcalculation(n) again leaves every field of every record,
\* and the summary derived from them, as they are.
C6_Idempotent ==
  AfterPremcalculation =>
    /\ premcalculation(df, lastn) = df
    /\ premcalculation(premcalculation(df, lastn), lastn) = df
    /\ summaries(premcalculation(df, lastn), brokerage.v) = summaries(df, brokerage.v)

C6_Witness ==
  /\ AfterPremcalculation
  /\ lastn = 1
  /\ \E i \in Drones : df[i].hullpremium > 0 /\ Unadjusted(i)
  /\ \E i \in Drones : ~Unadjusted(i)
  /\ \E i \in Cameras : df[i].premium > 0

Bands == {"0 - 5kg", "5 - 10kg", "10 - 20kg", "> 20kg"}

\* C7 as stated: rate computation on a drone whose weight band is not one
\* of the four enumerated bands fails; no weight multiplier is defaulted
\* and no premium is produced for that drone.
C7_Original ==
  \A i \in Drones :
    df[i].weightband \notin Bands =>
      /\ ~AfterPremcalculation
      /\ df[i].weightmultiplier = NaN
      /\ df[i].hullpremium = NaN

\* C7 amended: rate computation on a drone whose weight band is not one of
\* the four enumerated bands does not fail: the weight multiplier defaults
\* to 2.50, the multiplier of the heaviest band, and the drone's premiums
\* are computed from it.
C7_Amended ==
  AfterPremcalculation =>
    \A i \in Drones :
      df[i].weightband \notin Bands =>
        /\ df[i].weightmultiplier = 250
        /\ df[i].finalrate * 100 = df[i].baserate * 250
        /\ df[i].hullpremium * 1000 = df[i].valuegbp * df[i].finalrate
        /\ df[i].adjusthullprem # NaN

C7_Witness ==
  /\ AfterPremcalculation
  /\ \E i \in Drones :
       /\ df[i].weightband \notin Bands
       /\ df[i].weightmultiplier = 250
       /\ df[i].hullpremium = 375

\* C8: a dataframe call whose batch has a null or absent required field
\* ends in an error and leaves the record collection, and the rest of the
\* portfolio, exactly as it was.
C8_FailedIngestion ==
  [][last' = "dataframe error" =>
       UNCHANGED <<exists, brokerage, simultanousdronelimit, df, summary>>]_vars

C8_Witness ==
  /\ last = "dataframe error"
  /\ numberOfDrones >= 1
  /\ numberOfCameras >= 1

RequiredPresent(i) ==
  IF df[i].assettype = "drone"
  THEN /\ df[i].valuegbp # NaN
       /\ df[i].weightband # NullStr
       /\ df[i].hasdetachablecamera # NaN
       /\ df[i].tpllimit # NaN
       /\ df[i].tplexcess # NaN
  ELSE df[i].assettype = "camera" /\ df[i].valuegbp # NaN

\* C9: every stored drone record has a value, weight band, camera flag,
\* TPL limit and TPL excess, and every stored camera record has a value.
C9_RequiredFields == \A i \in Rows : RequiredPresent(i)

C9_Witness ==
  /\ last = "dataframe"
  /\ numberOfDrones >= 1
  /\ numberOfCameras >= 1

\* C10: a construction with a brokerage outside [0,1) or a limit that is
\* neither None nor a non-negative integer ends in an error and leaves no
\* portfolio; every existing portfolio has a brokerage in [0,1) and a limit
\* that is None or a non-negative integer.
C10_Configuration ==
  /\ last = "__init__ error" => ~exists
  /\ ~exists => df = <<>> /\ summary = nosummary
  /\ exists =>
       /\ brokerage.t \in {"float", "int"}
       /\ 0 <= brokerage.v
       /\ brokerage.v < 100
       /\ \/ simultanousdronelimit.t = "NoneType"
          \/ simultanousdronelimit.t = "int" /\ simultanousdronelimit.v >= 0

C10_Witness == last = "__init__ error" /\ ~exists

\* The ILF difference of row i before the clamp.
LayerDifference(i) ==
  riebesell(df[i].tpllimit + df[i].tplexcess) - riebesell(df[i].tplexcess)

\* C11: for every drone, whatever its tpllimit and tplexcess, the tplilf
\* written by premcalculation satisfies 0 <= tplilf <= 1, and for a drone
\* of non-negative value tpllayerpremium is neither negative nor above
\* tplbaselayerpremium.
C11_IlfClamped ==
  \A i \in Drones :
    df[i].tplilf # NaN =>
      /\ 0 <= df[i].tplilf
      /\ df[i].tplilf <= ILFOne
      /\ df[i].valuegbp >= 0 =>
           /\ 0 <= df[i].tpllayerpremium
           /\ df[i].tpllayerpremium <= df[i].tplbaselayerpremium

C11_Witness ==
  /\ AfterPremcalculation
  /\ \E i \in Drones :
       /\ LayerDifference(i) > ILFOne
       /\ df[i].tplilf = ILFOne
       /\ df[i].tpllayerpremium = df[i].tplbaselayerpremium
       /\ df[i].tpllayerpremium > 0
  /\ \E i \in Drones :
       /\ df[i].tpllimit < 0
       /\ LayerDifference(i) < 0
       /\ df[i].tplilf = 0

\* Row j of S comes before row i in the ranking by col: a larger col, or
\* an equal col and an earlier insertion.
RanksBefore(j, i, col) ==
  df[j][col] > df[i][col] \/ (df[j][col] = df[i][col] /\ j < i)

\* The k rows of S ranked first.
Selected(S, k, col) ==
  {i \in S : Cardinality({j \in S : RanksBefore(j, i, col)}) < k}

InputColumns ==
  {"serialnumber", "valuegbp", "weightband", "hasdetachablecamera", "tpllimit",
   "tplexcess", "assettype"}

\* The stored records as a fresh portfolio holds them after their
\* ingestion: the input columns only.
Fresh ==
  [i \in Rows |->
     [col \in Columns |-> IF col \in InputColumns THEN df[i][col] ELSE Null(col)]]

\* C13: the rows after premcalculation(n) are those a fresh portfolio
\* holding the same records has after one premcalculation(n), whatever
\* ingestions and calculations came before; after premcalculation(None)
\* every asset has adjusted = raw.
C13_HistoryIndependent ==
  AfterPremcalculation =>
    /\ df = premcalculation(Fresh, lastn)
    /\ lastn = None =>
         /\ \A i \in Drones : Unadjusted(i)
         /\ \A i \in Cameras : CameraUnadjusted(i)

\* The summary on record was taken when both drones were flattened, and
\* premcalculation(None) has run since.
C13_Witness ==
  /\ AfterPremcalculation
  /\ lastn = None
  /\ Len(df) = 2
  /\ numberOfDrones = 2
  /\ summary.hullnet = 2 * flatdronefee
  /\ summary.tplnet = 0
  /\ \A i \in Drones : Unadjusted(i) /\ df[i].adjusthullprem # flatdronefee

RawDrone(i) == df[i].hullpremium + df[i].tpllayerpremium
AdjustedDrone(i) == df[i].adjusthullprem + df[i].adjusttplprem

\* C14 as stated: after premcalculation no drone has adjusthullprem +
\* adjusttplprem above hullpremium + tpllayerpremium, no camera has
\* adjustcamprem above premium, and so the adjusted total net is at most
\* the unadjusted total net.
C14_Original ==
  AfterPremcalculation =>
    /\ \A i \in Drones : AdjustedDrone(i) <= RawDrone(i)
    /\ \A i \in Cameras : df[i].adjustcamprem <= df[i].premium
    /\ Total(Drones, "adjusthullprem") + Total(Drones, "adjusttplprem")
         + Total(Cameras, "adjustcamprem")
       <= Total(Drones, "hullpremium") + Total(Drones, "tpllayerpremium")
            + Total(Cameras, "premium")

\* C14 amended: after premcalculation a drone's adjusthullprem +
\* adjusttplprem is its hullpremium + tpllayerpremium or the flat fee 150,
\* hence not above the raw sum for a drone whose raw sum is at least 150; a
\* camera's adjustcamprem is its premium or the flat fee 50, hence not above
\* the premium for a camera whose premium is at least 50; when every asset's
\* raw premium is at least its flat fee the adjusted total net is at most
\* the unadjusted total net.
C14_Amended ==
  AfterPremcalculation =>
    /\ \A i \in Drones :
         /\ AdjustedDrone(i) \in {RawDrone(i), 150}
         /\ RawDrone(i) >= 150 => AdjustedDrone(i) <= RawDrone(i)
    /\ \A i \in Cameras :
         /\ df[i].adjustcamprem \in {df[i].premium, 50}
         /\ df[i].premium >= 50 => df[i].adjustcamprem <= df[i].premium
    /\ ((\A i \in Drones : RawDrone(i) >= 150) /\ (\A i \in Cameras : df[i].premium >= 50))
         => Total(Drones, "adjusthullprem") + Total(Drones, "adjusttplprem")
              + Total(Cameras, "adjustcamprem")
            <= Total(Drones, "hullpremium") + Total(Drones, "tpllayerpremium")
                 + Total(Cameras, "premium")

C14_Witness ==
  /\ AfterPremcalculation
  /\ \A i \in Drones : RawDrone(i) >= 150
  /\ \A i \in Cameras : df[i].premium >= 50
  /\ \E i \in Drones : AdjustedDrone(i) < RawDrone(i)
  /\ \E i \in Cameras : df[i].adjustcamprem < df[i].premium

====
